---- MODULE Spec2Model ----
(***************************************************************************)
(* Learning Kalman-Bucy filter (lib/lkf_smoothed.py) and the observable     *)
(* feature maps (totorch/features.py).                                      *)
(*                                                                          *)
(* Times and the configured dt, tau are exact rationals <<num, den>> in     *)
(* lowest terms with den > 0; <<1, 0>> stands for float('inf').  The        *)
(* floating-point values of the filter (x, P, eta, z, ...) are fixed-point  *)
(* numbers: the integer v stands for v / Scale, products and quotients      *)
(* round down.  eta_bnd is a fixed-point number or FInf.  Matrices are      *)
(* sequences of rows; an n-vector in column form is an n x 1 matrix, as in  *)
(* the source.                                                              *)
(***************************************************************************)
EXTENDS Integers, Sequences, FiniteSets, TLC

(* ------------------------------ bounds --------------------------------- *)
\* number of observe calls made on one filter instance
MaxTicks == 4
\* largest number of sub-steps the integrator takes inside one integrate()
MaxSub == 2
\* resolution of the fixed-point values: v stands for v / Scale
Scale == 16
\* system order n (x0.shape[0]); the experiments are 2 x 2
NDim == 2
\* observables: largest delay length, number of higher-order polynomial terms,
\* composition length and snapshot length
MaxDelay == 1
MaxExtra == 1
MaxSeq == 2
MaxCols == 4

(* ---------------------- exact rationals (time) -------------------------- *)
Abs(a) == IF a < 0 THEN -a ELSE a

RECURSIVE Gcd(_, _)
Gcd(a, b) == IF b = 0 THEN a ELSE Gcd(b, a % b)

Rat(n, d) ==
  LET s == IF d < 0 THEN -1 ELSE 1
      g == Gcd(Abs(n), Abs(d))
  IN  <<(s * n) \div g, (s * d) \div g>>

RatOf(n) == <<n, 1>>
Inf == <<1, 0>>
IsInf(a) == a[2] = 0

RAdd(a, b) == Rat(a[1] * b[2] + b[1] * a[2], a[2] * b[2])
RSub(a, b) == Rat(a[1] * b[2] - b[1] * a[2], a[2] * b[2])
RDiv(a, b) == Rat(a[1] * b[2], a[2] * b[1])
\* a < b and a <= b, with b possibly Inf (a is always finite)
RLt(a, b) == IF IsInf(b) THEN TRUE ELSE a[1] * b[2] < b[1] * a[2]
RLe(a, b) == IF IsInf(b) THEN TRUE ELSE a[1] * b[2] <= b[1] * a[2]
\* python int(a) of a non-negative rational
RInt(a) == a[1] \div a[2]

(* ----------------------- fixed-point values ----------------------------- *)
Fx(n) == n * Scale
FInf == Scale * Scale * Scale
FMul(a, b) == (a * b) \div Scale
FDiv(a, b) == (a * Scale) \div b
\* a value times / divided by an exact rational (dt, tau, a sub-step)
FMulRat(a, r) == (a * r[1]) \div r[2]
FDivRat(a, r) == (a * r[2]) \div r[1]

RECURSIVE Sum(_)
Sum(s) == IF s = <<>> THEN 0 ELSE Head(s) + Sum(Tail(s))

(* ------------------------------ matrices ------------------------------- *)
\* a sequence given as a function, held as a tuple (its elements computed once)
Vec(fn) == fn \o <<>>

Rows(A) == Len(A)
Cols(A) == Len(A[1])

MatMul(A, B) ==
  Vec([i \in 1..Rows(A) |->
    Vec([j \in 1..Cols(B) |-> Sum(Vec([k \in 1..Cols(A) |-> FMul(A[i][k], B[k][j])]))])])
MatAdd(A, B) == Vec([i \in 1..Rows(A) |-> Vec([j \in 1..Cols(A) |-> A[i][j] + B[i][j]])])
MatSub(A, B) == Vec([i \in 1..Rows(A) |-> Vec([j \in 1..Cols(A) |-> A[i][j] - B[i][j]])])
MatMulRat(A, r) == Vec([i \in 1..Rows(A) |-> Vec([j \in 1..Cols(A) |-> FMulRat(A[i][j], r)])])
MatDivRat(A, r) == Vec([i \in 1..Rows(A) |-> Vec([j \in 1..Cols(A) |-> FDivRat(A[i][j], r)])])
MatScale(c, A) == Vec([i \in 1..Rows(A) |-> Vec([j \in 1..Cols(A) |-> FMul(c, A[i][j])])])
MatHalf(A) == Vec([i \in 1..Rows(A) |-> Vec([j \in 1..Cols(A) |-> A[i][j] \div 2])])
Transpose(A) == Vec([j \in 1..Cols(A) |-> Vec([i \in 1..Rows(A) |-> A[i][j]])])
Zeros(r, c) == Vec([i \in 1..r |-> Vec([j \in 1..c |-> 0])])
Eye(n) == Vec([i \in 1..n |-> Vec([j \in 1..n |-> IF i = j THEN Fx(1) ELSE 0])])
\* integer entries to fixed-point entries
MatOf(A) == Vec([i \in 1..Rows(A) |-> Vec([j \in 1..Cols(A) |-> Fx(A[i][j])])])
\* v[:, np.newaxis] and np.squeeze of an n x 1 matrix
NewAxis(v) == Vec([i \in 1..Len(v) |-> <<v[i]>>])
Squeeze(A) == Vec([i \in 1..Rows(A) |-> A[i][1]])

\* np.linalg.inv, for the 2 x 2 systems modelled; a singular matrix raises
Det(A) == FMul(A[1][1], A[2][2]) - FMul(A[1][2], A[2][1])
Singular(A) == Det(A) = 0
Inv(A) ==
  LET d == Det(A)
  IN  << <<FDiv(A[2][2], d), FDiv(-A[1][2], d)>>,
         <<FDiv(-A[2][1], d), FDiv(A[1][1], d)>> >>
\* np.linalg.solve(A, B): the X with A X = B
Solve(A, B) == MatMul(Inv(A), B)
\* square of np.linalg.norm (Frobenius), in units of 1 / Scale^2
NormSq(A) == Sum(Vec([k \in 1..(Rows(A) * Cols(A)) |->
                LET e == A[((k - 1) \div Cols(A)) + 1][((k - 1) % Cols(A)) + 1]
                IN  e * e]))
\* np.linalg.norm(A) <= bnd
NormLe(A, bnd) == bnd = FInf \/ (bnd >= 0 /\ NormSq(A) <= bnd * bnd)

(* ------------------- augmented state: pack / unpack --------------------- *)
\* LKF.ode_shape, LKF.ode_ndim
ode_shape == <<NDim, 1 + 2 * NDim>>
ode_ndim == ode_shape[1] * ode_shape[2]

\* ndarray.reshape((r, c)) of a flat vector and ndarray.ravel(), row-major
Reshape(flat, r, c) == Vec([i \in 1..r |-> Vec([j \in 1..c |-> flat[(i - 1) * c + j]])])
Ravel(A) == Vec([k \in 1..(Rows(A) * Cols(A)) |->
              A[((k - 1) \div Cols(A)) + 1][((k - 1) % Cols(A)) + 1]])
\* np.concatenate((A, B, C), axis=1)
Concat1(A, B, C) == Vec([i \in 1..Rows(A) |-> A[i] \o B[i] \o C[i]])
\* A[:, a-1:b] (columns a..b, 1-based inclusive)
ColSlice(A, a, b) == Vec([i \in 1..Rows(A) |-> SubSeq(A[i], a, b)])

\* iv = np.concatenate((x0, P0, eta0), axis=1).ravel()  (line 75)
Pack(x, P, eta) == Ravel(Concat1(x, P, eta))

\* LKF.load_vars (load_vars_swapped: the P and eta blocks read in the other order)
load_vars_swapped(state) ==
  LET s == Reshape(state, ode_shape[1], ode_shape[2])
  IN  <<ColSlice(s, 1, 1), ColSlice(s, 2 + NDim, 1 + 2 * NDim), ColSlice(s, 2, 1 + NDim)>>
load_vars(state) ==
  LET s == Reshape(state, ode_shape[1], ode_shape[2])
  IN  <<ColSlice(s, 1, 1), ColSlice(s, 2, 1 + NDim), ColSlice(s, 2 + NDim, 1 + 2 * NDim)>>

\* the drift's own unpacking of its state argument (lines 35-36)
f_unpack(state) ==
  LET s == Reshape(state, ode_shape[1], ode_shape[2])
  IN  <<ColSlice(s, 1, 1), ColSlice(s, 2, 1 + NDim), ColSlice(s, 2 + NDim, 1 + 2 * NDim)>>

\* the drift's packing of the derivative (lines 59-60)
f_pack(d_x, d_P, d_eta) == Ravel(Concat1(d_x, d_P, d_eta))

(* --------------------------- filter state ------------------------------ *)
VARIABLES
  H, R, dt, tau, eta_bnd,  \* LKF configuration (self.H, self.R, self.dt, self.tau, self.eta_bnd)
  nsub, inplace,           \* the integrator: sub-steps per integrate(), and whether it updates r.y in place
  bufs,                    \* the arrays the integrator has held as r.y (flat augmented vectors)
  r_y,                     \* which array of bufs is r.y now
  r_t,                     \* r.t, the integrator's clock (= self.t)
  err_hist,                \* self.err_hist: innovations, one n-vector per call
  P_hist,                  \* self.P_hist: views into arrays of bufs, one per call
  e_zz_t, p_inv_t,         \* self.e_zz_t, self.p_inv_t
  raised,                  \* the last call raised (IndexError / LinAlgError)
  ret,                     \* what the last call returned: <<x_t.copy(), err_t>>
  tick,                    \* record of the last call: its drift evaluations and the state before it
  produced                 \* per completed call, the innovation and covariance that call computed

lkf_vars == <<H, R, dt, tau, eta_bnd, nsub, inplace, bufs, r_y, r_t, err_hist, P_hist,
              e_zz_t, p_inv_t, raised, ret, tick, produced>>

\* self.Q, self.eps, self.gamma as passed by the modelled caller
Q == Eye(NDim)
eps == Fx(1)
gamma == Fx(1)
\* x0 of experiments/2x2_ltv.py
x0 == <<Fx(-1), Fx(-1)>>
\* F_hat = lambda t: z.F(0): the nominal dynamics, a damped oscillator
F(tt) == MatOf(<< <<0, 1>>, <<-1, -1>> >>)

\* the configurations and observations the model is driven with: H and R
\* invertible, dt > 0, tau > 0 (below dt, a multiple of dt, not a multiple of
\* dt, infinite), eta_bnd infinite or finite
HSet == { Eye(NDim), MatOf(<< <<1, 1>>, <<0, 1>> >>) }
RSet == { Eye(NDim) }
DtSet == { Rat(1, 2), Rat(1, 4) }
TauSet == { Rat(1, 8), Rat(1, 4), Rat(1, 2), Rat(3, 4), Inf }
EtaBndSet == { FInf, Fx(1) }
ZSet == { <<Fx(1), 0>>, <<Fx(1), Fx(-1)>> }

\* self.x_t, self.P_t, self.eta_t: views of r.y
x_t == load_vars(bufs[r_y])[1]
P_t == load_vars(bufs[r_y])[2]
eta_t == load_vars(bufs[r_y])[3]
\* self.t
t == r_t

\* seq[-k] of a python list of length n: the 1-based position read, 0 when it raises IndexError
PyNegIndex(n, k) ==
  IF n = 0 THEN 0
  ELSE IF k = 0 THEN 1
  ELSE IF k <= n THEN n - k + 1
  ELSE 0

(* ------------------------------ drift f -------------------------------- *)
\* the Kalman gain of line 38
Gain(P, Hm, Rm) == MatMul(MatMul(P, Hm), Inv(Rm))

\* the phase test of line 41 (LearningFromTau: t >= tau instead)
LearningFromTau(tt, tau_) == ~RLt(tt, tau_)
Learning(tt, tau_) == ~RLe(tt, tau_)

\* the acceptance gate of line 53 (GateOpen: no gate)
GateOpen(eta_new, bnd) == TRUE
Gate(eta_new, bnd) == NormLe(eta_new, bnd)

\* the lookback of lines 46-48: positions of (err_t, err_tau) in a history of length n
Lookback(n, tau_, dt_) ==
  LET tau_n == RInt(RDiv(tau_, dt_))
  IN  [tau_n |-> tau_n, i_t |-> PyNegIndex(n, 1), i_tau |-> PyNegIndex(n, tau_n)]

NoEval == [tt |-> RatOf(0), learning |-> FALSE, raised |-> FALSE, K |-> Zeros(NDim, NDim),
           P |-> Zeros(NDim, NDim), eta |-> Zeros(NDim, NDim), n |-> 0, tau_n |-> 0,
           i_t |-> 0, i_tau |-> 0, used_err_tau |-> <<>>, used_p_tau |-> <<>>,
           eta_new |-> Zeros(NDim, NDim), accepted |-> FALSE, d_eta |-> Zeros(NDim, NDim),
           d_x |-> Zeros(NDim, 1), d_P |-> Zeros(NDim, NDim)]

\* f(t, state, z_t, err_hist, F_t); PH is self.P_hist read through its views.
\* Result: the flattened derivative, the temporaries it stores, and a record of the evaluation.
f(tt, state, z_t, eh, F_t, PH, ezz0, pinv0) ==
  LET sv == f_unpack(state)
      xx == sv[1]
      PP == sv[2]
      ee == sv[3]
      zc == NewAxis(z_t)
      K_t == Gain(PP, H, R)
      learn == Learning(tt, tau)
      lb == Lookback(Len(eh), tau, dt)
      ridge == MatAdd(MatMul(Transpose(PP), PP), MatScale(eps, Eye(NDim)))
      \* LinAlgError of inv / solve (lines 38, 42, 43), IndexError of lines 47-48
      linalg_bad == Singular(R) \/ (learn /\ (Singular(H) \/ Singular(ridge)))
      bad == linalg_bad \/ (learn /\ (lb.i_t = 0 \/ lb.i_tau = 0))
      P_inv == Solve(ridge, Transpose(PP))
      H_inv == Inv(H)
      e_t == NewAxis(eh[lb.i_t])
      e_tau == NewAxis(eh[lb.i_tau])
      p_t == PH[lb.i_t]
      p_tau == PH[lb.i_tau]
      d_zz == MatSub(MatDivRat(MatSub(MatMul(e_t, Transpose(e_t)),
                                      MatMul(e_tau, Transpose(e_tau))), tau),
                     MatDivRat(MatMul(MatMul(H, MatSub(p_t, p_tau)), Transpose(H)), tau))
      eta_new == MatHalf(MatMul(MatMul(MatMul(MatScale(gamma, H_inv), d_zz),
                                       Transpose(H_inv)), P_inv))
      ok == Gate(eta_new, eta_bnd)
      d_eta == IF learn /\ ok THEN MatDivRat(MatSub(eta_new, ee), dt) ELSE Zeros(NDim, NDim)
      F_est == MatSub(F_t, ee)
      d_x == MatAdd(MatMul(F_est, xx), MatMul(K_t, MatSub(zc, MatMul(H, xx))))
      d_P == MatSub(MatAdd(MatAdd(MatMul(F_est, PP), MatMul(PP, Transpose(F_est))), Q),
                    MatMul(MatMul(K_t, R), Transpose(K_t)))
  IN  IF bad
      THEN [raised |-> TRUE, d_state |-> <<>>, e_zz_t |-> ezz0,
            p_inv_t |-> IF learn /\ ~linalg_bad THEN P_inv ELSE pinv0,
            ev |-> [NoEval EXCEPT !.tt = tt, !.learning = learn, !.raised = TRUE,
                                  !.P = PP, !.eta = ee, !.n = Len(eh), !.tau_n = lb.tau_n]]
      ELSE [raised |-> FALSE,
            d_state |-> f_pack(d_x, d_P, d_eta),
            e_zz_t |-> IF learn THEN d_zz ELSE ezz0,
            p_inv_t |-> IF learn THEN P_inv ELSE pinv0,
            ev |-> [tt |-> tt, learning |-> learn, raised |-> FALSE, K |-> K_t, P |-> PP,
                    eta |-> ee, n |-> Len(eh),
                    tau_n |-> IF learn THEN lb.tau_n ELSE 0,
                    i_t |-> IF learn THEN lb.i_t ELSE 0,
                    i_tau |-> IF learn THEN lb.i_tau ELSE 0,
                    used_err_tau |-> IF learn THEN eh[lb.i_tau] ELSE <<>>,
                    used_p_tau |-> IF learn THEN p_tau ELSE <<>>,
                    eta_new |-> IF learn THEN eta_new ELSE Zeros(NDim, NDim),
                    accepted |-> learn /\ ok,
                    d_eta |-> d_eta, d_x |-> d_x, d_P |-> d_P]]

\* g(t, state): no diffusion
g(tt, state) == Zeros(ode_ndim, ode_ndim)

(* ------------------------- the integrator ------------------------------ *)
\* one explicit Euler sub-step of length h on the array r.y = b[ry]:
\* y <- y + f(t, y, *f_params) * h   (g is zero: no diffusion term)
EulerApply(ist, y, r, h, ry) ==
  IF r.raised
  THEN [ist EXCEPT !.raised = TRUE, !.p_inv_t = r.p_inv_t, !.evals = Append(@, r.ev)]
  ELSE [ist EXCEPT !.bufs[ry] = Vec([i \in 1..Len(y) |-> y[i] + FMulRat(r.d_state[i], h)]),
                   !.r_t = RAdd(@, h),
                   !.e_zz_t = r.e_zz_t,
                   !.p_inv_t = r.p_inv_t,
                   !.evals = Append(@, r.ev)]

EulerStep(ist, h, z_t, eh, refs, F_t, ry) ==
  IF ist.raised THEN ist
  ELSE EulerApply(ist, ist.bufs[ry],
                  f(ist.r_t, ist.bufs[ry], z_t, eh, F_t,
                    Vec([i \in 1..Len(refs) |-> load_vars(ist.bufs[refs[i]])[2]]),
                    ist.e_zz_t, ist.p_inv_t),
                  h, ry)

RECURSIVE EulerSteps(_, _, _, _, _, _, _, _)
EulerSteps(ist, k, h, z_t, eh, refs, F_t, ry) ==
  IF k = 0 THEN ist
  ELSE EulerSteps(EulerStep(ist, h, z_t, eh, refs, F_t, ry), k - 1, h, z_t, eh, refs, F_t, ry)

\* r.integrate(t_target) with the parameters of r.set_f_params(z_t, err_hist, F_t):
\* nsub sub-steps from r.t to t_target.  An in-place integrator keeps updating the
\* array it holds; the other kind leaves it alone and holds a new array afterwards.
integrate(t_target, z_t, eh, refs, F_t) ==
  LET b0 == IF inplace THEN bufs ELSE Append(bufs, bufs[r_y])
      ry == IF inplace THEN r_y ELSE Len(bufs) + 1
      h == RDiv(RSub(t_target, r_t), RatOf(nsub))
      ist0 == [bufs |-> b0, r_t |-> r_t, e_zz_t |-> e_zz_t, p_inv_t |-> p_inv_t,
               evals |-> <<>>, raised |-> FALSE]
  IN  [ist |-> EulerSteps(ist0, nsub, h, z_t, eh, refs, F_t, ry), ry |-> ry]

(* --------------------------- the filter -------------------------------- *)
\* 1-D x @ A
VecMat(x, A) == Vec([j \in 1..Cols(A) |-> Sum(Vec([k \in 1..Len(x) |-> FMul(x[k], A[k][j])]))])
VecSub(a, b) == Vec([i \in 1..Len(a) |-> a[i] - b[i]])

\* err_t = z_t - x_t @ H.T  (line 92), x the squeezed estimate
\* (InnovationNoTranspose: x_t @ H instead)
InnovationNoTranspose(z_t, x, Hm) == VecSub(z_t, VecMat(x, Hm))
Innovation(z_t, x, Hm) == VecSub(z_t, VecMat(x, Transpose(Hm)))

NoTick == [evals |-> <<>>, eta_pre |-> Zeros(NDim, NDim), x_pre |-> NewAxis(x0),
           t_pre |-> RatOf(0), z |-> <<>>, calls |-> 0]

\* LKF.__init__, with the arguments drawn from the given sets
LKFConstruct(Hs, Rs, Dts, Taus, Bnds, Subs, Kinds) ==
  /\ H \in Hs
  /\ R \in Rs
  /\ dt \in Dts
  /\ tau \in Taus
  /\ eta_bnd \in Bnds
  /\ nsub \in Subs
  /\ inplace \in Kinds
  /\ bufs = << Pack(NewAxis(x0), Eye(NDim), Zeros(NDim, NDim)) >>
  /\ r_y = 1
  /\ r_t = RatOf(0)
  /\ err_hist = <<>>
  /\ P_hist = <<>>
  /\ e_zz_t = Zeros(NDim, NDim)
  /\ p_inv_t = Zeros(NDim, NDim)
  /\ raised = FALSE
  /\ ret = <<>>
  /\ tick = NoTick
  /\ produced = <<>>

LKFInit == LKFConstruct(HSet, RSet, DtSet, TauSet, EtaBndSet, 1..MaxSub, BOOLEAN)

\* LKF.__call__(z_t): observe through the filter
LKF_call(z_t) ==
  \E res \in { integrate(RAdd(t, dt), z_t, err_hist, P_hist, F(t)) } :
  LET ist == res.ist
      sv == load_vars(ist.bufs[res.ry])
      x == Squeeze(sv[1])
      err == Innovation(z_t, x, H)
      rec == [evals |-> ist.evals, eta_pre |-> eta_t, x_pre |-> x_t, t_pre |-> t,
              z |-> z_t, calls |-> tick.calls + 1]
  IN  /\ ~raised
      /\ tick.calls < MaxTicks
      /\ bufs' = ist.bufs
      /\ r_y' = res.ry
      /\ e_zz_t' = ist.e_zz_t
      /\ p_inv_t' = ist.p_inv_t
      /\ tick' = rec
      /\ UNCHANGED <<H, R, dt, tau, eta_bnd, nsub, inplace>>
      /\ IF ist.raised
         THEN /\ raised' = TRUE
              /\ r_t' = ist.r_t
              /\ ret' = <<>>
              /\ UNCHANGED <<err_hist, P_hist, produced>>
         ELSE /\ raised' = FALSE
              /\ r_t' = RAdd(t, dt)
              /\ P_hist' = Append(P_hist, res.ry)
              /\ err_hist' = Append(err_hist, err)
              /\ ret' = <<x, err>>
              /\ produced' = Append(produced, [err |-> err, P |-> sv[2]])

Observe == \E z_t \in ZSet : LKF_call(z_t)

(* ------------------- pack / unpack on arbitrary values ------------------ *)
VARIABLES
  pk_in,     \* the <<x, P, eta>> given
  pk_flat,   \* its flat augmented vector
  pk_out,    \* what load_vars made of pk_flat
  pk_drv,    \* the drift evaluated on pk_flat: its derivative vector and its record
  pk_pc

pack_vars == <<pk_in, pk_flat, pk_out, pk_drv, pk_pc>>

PackIdle ==
  /\ pk_in = <<>> /\ pk_flat = <<>> /\ pk_out = <<>> /\ pk_drv = <<>> /\ pk_pc = "idle"

BitMats == { << <<a, b>>, <<c, d>> >> : a \in {0, 1}, b \in {0, 1}, c \in {0, 1}, d \in {0, 1} }
PackMats == { MatOf(m) : m \in BitMats \cup { << <<1, 2>>, <<3, 4>> >> } }
PackVecs == { NewAxis(x0), NewAxis(<<Fx(1), Fx(2)>>), NewAxis(<<0, Fx(1)>>) }

PackStart ==
  /\ pk_in \in { <<x, P, e>> : x \in PackVecs, P \in PackMats, e \in PackMats }
  /\ pk_flat = <<>> /\ pk_out = <<>> /\ pk_drv = <<>> /\ pk_pc = "start"

DoPack ==
  /\ pk_pc = "start"
  /\ pk_flat' = Pack(pk_in[1], pk_in[2], pk_in[3])
  /\ pk_pc' = "packed"
  /\ UNCHANGED <<pk_in, pk_out, pk_drv>>

DoUnpack ==
  /\ pk_pc = "packed"
  /\ pk_out' = load_vars(pk_flat)
  /\ pk_pc' = "unpacked"
  /\ UNCHANGED <<pk_in, pk_flat, pk_drv>>

DoDrift ==
  /\ pk_pc = "unpacked"
  /\ \E z_t \in ZSet :
       pk_drv' = f(r_t, pk_flat, z_t, err_hist, F(r_t), <<>>, e_zz_t, p_inv_t)
  /\ pk_pc' = "drift"
  /\ UNCHANGED <<pk_in, pk_flat, pk_out>>

(* -------------------- observables (features.py) ------------------------ *)
\* An observable is a record; snapshots are integer matrices, d rows x N columns.
\* <<>> stands for a call that failed its assertion.
RECURSIVE Pow(_, _)
Pow(a, n) == IF n = 0 THEN 1 ELSE a * Pow(a, n - 1)

RECURSIVE Prod(_)
Prod(s) == IF s = <<>> THEN 1 ELSE Head(s) * Prod(Tail(s))

\* the full-state keys of lines 110-113: the i-th unit exponent vector
UnitKey(i, d) == Vec([j \in 1..d |-> IF j = i THEN 1 ELSE 0])

\* keys the sampling loop of lines 123-131 can draw: total degree 2..p
Monomials(d, p) == { Vec(key) : key \in { e \in [1..d -> 0..p] : Sum(Vec(e)) \in 2..p } }

\* sequences of n distinct elements of S
Distinct(S, n) == { Vec(q) : q \in { e \in [1..n -> S] : \A a, b \in 1..n : a # b => e[a] # e[b] } }

\* PolynomialObservable(p, d, k): every psi the constructor can end with
\* (none when p < 2 with k > d, or when fewer than k keys exist)
PolynomialObservable(p, d, k) ==
  { [kind |-> "poly", d |-> d, k |-> k, m |-> 1, tau |-> 0,
     psi |-> Vec([i \in 1..d |-> UnitKey(i, d)]) \o extra, seq |-> <<>>] :
    extra \in Distinct(Monomials(d, p), k - d) }

\* DelayObservable(d, tau)
DelayObservable(d, tau_) ==
  [kind |-> "delay", d |-> d, k |-> (tau_ + 1) * d, m |-> tau_ + 1, tau |-> tau_,
   psi |-> <<>>, seq |-> <<>>]

\* ComposedObservable(seq), for a seq that passes the assertions of lines 48-50
Compatible(seq) ==
  Len(seq) > 0 /\ \A i \in 1..(Len(seq) - 1) : seq[i].k = seq[i + 1].d
ComposedObservable(seq) ==
  [kind |-> "composed", d |-> seq[1].d, k |-> seq[Len(seq)].k,
   m |-> Prod(Vec([i \in 1..Len(seq) |-> seq[i].m])), tau |-> 0, psi |-> <<>>, seq |-> seq]

\* PolynomialObservable.__call__ (both branches compute the same rows): row i is
\* the product of X[term] ** power over the terms of key i with power > 0
PolyCall(obs, X) ==
  Vec([i \in 1..obs.k |->
    Vec([c \in 1..Cols(X) |->
      Prod(Vec([term \in 1..obs.d |->
        IF obs.psi[i][term] > 0 THEN Pow(X[term][c], obs.psi[i][term]) ELSE 1]))])])

\* DelayObservable.__call__: the blocks X[:, i:n-tau+i], i = 0..tau, stacked
DelayCall(obs, X) ==
  LET n == Cols(X)
  IN  IF n < obs.tau + 1 THEN <<>>
      ELSE Vec([r \in 1..((obs.tau + 1) * obs.d) |->
             LET i == (r - 1) \div obs.d
                 row == ((r - 1) % obs.d) + 1
             IN  SubSeq(X[row], i + 1, n - obs.tau + i)])

\* PolynomialObservable.preimage and DelayObservable.preimage: Z[:self.d]
\* (DelayPreimageLast: the last d rows instead)
PolyPreimage(obs, Z) == SubSeq(Z, 1, obs.d)
DelayPreimageLast(obs, Z) == SubSeq(Z, Len(Z) - obs.d + 1, Len(Z))
DelayPreimage(obs, Z) == SubSeq(Z, 1, obs.d)

RECURSIVE ObsCall(_, _), ObsPreimage(_, _), CallSeq(_, _, _), PreimageSeq(_, _, _)
\* obs(X)
ObsCall(obs, X) ==
  IF X = <<>> THEN <<>>
  ELSE CASE obs.kind = "poly" -> PolyCall(obs, X)
         [] obs.kind = "delay" -> DelayCall(obs, X)
         [] obs.kind = "composed" -> CallSeq(obs.seq, 1, X)
\* ComposedObservable.__call__: seq[i], seq[i+1], ... applied in turn
CallSeq(seq, i, Z) ==
  IF i > Len(seq) THEN Z ELSE CallSeq(seq, i + 1, ObsCall(seq[i], Z))
\* obs.preimage(Z)
ObsPreimage(obs, Z) ==
  IF Z = <<>> THEN <<>>
  ELSE CASE obs.kind = "poly" -> PolyPreimage(obs, Z)
         [] obs.kind = "delay" -> DelayPreimage(obs, Z)
         [] obs.kind = "composed" -> PreimageSeq(obs.seq, Len(obs.seq), Z)
\* ComposedObservable.preimage: seq[i], seq[i-1], ... applied in turn
PreimageSeq(seq, i, X) ==
  IF i = 0 THEN X ELSE PreimageSeq(seq, i - 1, ObsPreimage(seq[i], X))

\* the observables the model is driven with: the polynomial observables of
\* the dimensions and degrees below with up to MaxExtra higher-order terms, the
\* delay observables of delay <= MaxDelay, and the compositions of up to MaxSeq
\* of them whose dimensions match
ObsDims == 1..2
ObsDegrees == 1..2
PolyObs == UNION { UNION { PolynomialObservable(p, d, k) : k \in d..(d + MaxExtra) } :
                     p \in ObsDegrees, d \in ObsDims }
DelayObs == { DelayObservable(d, tau_) : d \in 1..(2 + MaxExtra), tau_ \in 0..MaxDelay }
SimpleObs == PolyObs \cup DelayObs

RECURSIVE CompatibleSeqs(_)
CompatibleSeqs(n) ==
  IF n = 1 THEN { <<a>> : a \in { o \in SimpleObs : o.d \in ObsDims } }
  ELSE LET shorter == CompatibleSeqs(n - 1)
       IN  shorter \cup UNION { { Append(q, b) : b \in { o \in SimpleObs : o.d = q[Len(q)].k } } :
                                q \in shorter }
ComposedObs == { ComposedObservable(q) : q \in { c \in CompatibleSeqs(MaxSeq) : Compatible(c) } }
ObsSet == { o \in SimpleObs : o.d \in ObsDims } \cup ComposedObs

\* snapshots of d rows and N columns: the tests' i*x pattern, a snapshot of
\* pairwise distinct entries, and one with signs
Snapshots(d, N) ==
  { Vec([r \in 1..d |-> Vec([c \in 1..N |-> c * (r - 1)])]),
    Vec([r \in 1..d |-> Vec([c \in 1..N |-> (r - 1) * N + c + 1])]),
    Vec([r \in 1..d |-> Vec([c \in 1..N |-> (IF c % 2 = 0 THEN 1 ELSE -1) * (r + 2 * c)])]) }

VARIABLES
  ob_obs,   \* the observable
  ob_X,     \* the state snapshot
  ob_Y,     \* obs(X)
  ob_Z,     \* obs.preimage(Y)
  ob_pc

obs_vars == <<ob_obs, ob_X, ob_Y, ob_Z, ob_pc>>

ObsIdle ==
  /\ ob_obs = <<>> /\ ob_X = <<>> /\ ob_Y = <<>> /\ ob_Z = <<>> /\ ob_pc = "idle"

ObsStart ==
  /\ ob_obs \in { o \in ObsSet : o.m <= MaxCols }
  /\ \E N \in ob_obs.m..MaxCols : ob_X \in Snapshots(ob_obs.d, N)
  /\ ob_Y = <<>> /\ ob_Z = <<>> /\ ob_pc = "start"

ObsApply ==
  /\ ob_pc = "start"
  /\ ob_Y' = ObsCall(ob_obs, ob_X)
  /\ ob_pc' = "called"
  /\ UNCHANGED <<ob_obs, ob_X, ob_Z>>

ObsInvert ==
  /\ ob_pc = "called"
  /\ ob_Z' = ObsPreimage(ob_obs, ob_Y)
  /\ ob_pc' = "pre"
  /\ UNCHANGED <<ob_obs, ob_X, ob_Y>>

(* --------------------------- specifications ---------------------------- *)
vars == <<lkf_vars, pack_vars, obs_vars>>

\* the filter driven by a sequence of observe calls
Init == LKFInit /\ PackIdle /\ ObsIdle
Next == Observe /\ UNCHANGED <<pack_vars, obs_vars>>
Spec == Init /\ [][Next]_vars

\* pack, unpack and one drift evaluation on arbitrary <<x, P, eta>>
InitPack ==
  /\ LKFConstruct(HSet, RSet, { Rat(1, 2) }, { Inf }, { FInf }, { 1 }, { TRUE })
  /\ PackStart
  /\ ObsIdle
NextPack == (DoPack \/ DoUnpack \/ DoDrift) /\ UNCHANGED <<lkf_vars, obs_vars>>
SpecPack == InitPack /\ [][NextPack]_vars

\* an observable applied to a snapshot, then inverted
InitObs ==
  /\ LKFConstruct({ Eye(NDim) }, RSet, { Rat(1, 2) }, { Inf }, { FInf }, { 1 }, { TRUE })
  /\ PackIdle
  /\ ObsStart
NextObs == (ObsApply \/ ObsInvert) /\ UNCHANGED <<lkf_vars, pack_vars>>
SpecObs == InitObs /\ [][NextObs]_vars

(* ------------------------------ claims --------------------------------- *)
\* the drift evaluations of the last call, and the values P_hist reads now
Evals == { tick.evals[i] : i \in 1..Len(tick.evals) }
LearnEvals == { ev \in Evals : ev.learning /\ ~ev.raised }
PHistVal(i) == load_vars(bufs[P_hist[i]])[2]
ZeroEta == Zeros(NDim, NDim)

\* C1: after every call whose drift evaluations all happened at a time t <= tau,
\* eta is the all-zero matrix; with tau = inf that is after every call.
C1_WarmupEtaZero ==
  (\A ev \in Evals : RLe(ev.tt, tau)) => eta_t = ZeroEta

\* a call that evaluated the drift exactly at t = tau (finite), a later call at
\* tau = inf, both still in warm-up
C1_Witness ==
  /\ tick.calls >= 2
  /\ ~raised
  /\ \A ev \in Evals : RLe(ev.tt, tau)
  /\ \/ \E ev \in Evals : ev.tt = tau
     \/ IsInf(tau) /\ tick.calls = MaxTicks

\* C2: a call in the learning phase all of whose candidates eta_new have norm
\* greater than eta_bnd returns normally and leaves eta exactly as it was.
C2_GateRejectHoldsEta ==
  (LearnEvals # {} /\ \A ev \in LearnEvals : ~NormLe(ev.eta_new, eta_bnd))
    => (~raised /\ eta_t = tick.eta_pre)

\* a rejected candidate while eta already holds an accepted, non-zero correction
C2_Witness ==
  /\ LearnEvals # {}
  /\ \A ev \in LearnEvals : ~NormLe(ev.eta_new, eta_bnd)
  /\ ~raised
  /\ eta_t # ZeroEta
  /\ eta_t = tick.eta_pre

\* C3: after k completed calls both buffers hold k entries, the i-th being the
\* innovation, respectively covariance, the i-th call produced.
C3_BuffersHoldProduced ==
  /\ Len(err_hist) = Len(produced)
  /\ Len(P_hist) = Len(produced)
  /\ \A i \in 1..Len(produced) :
       err_hist[i] = produced[i].err /\ PHistVal(i) = produced[i].P

\* C4: every call leaves the entries already stored unchanged in value and position.
C4_HistoryAppendOnly ==
  [][ /\ Len(err_hist') >= Len(err_hist)
      /\ Len(P_hist') >= Len(P_hist)
      /\ \A i \in 1..Len(err_hist) : err_hist'[i] = err_hist[i]
      /\ \A i \in 1..Len(P_hist) :
           load_vars(bufs'[P_hist'[i]])[2] = load_vars(bufs[P_hist[i]])[2] ]_lkf_vars

\* C5: a completed call returns the updated estimate and the innovation z - H x
\* of that updated estimate, which is also the newest entry of err_hist.
C5_ReturnsPostUpdateInnovation ==
  (tick.calls > 0 /\ ~raised) =>
    /\ ret[1] = Squeeze(x_t)
    /\ NewAxis(ret[2]) = MatSub(NewAxis(tick.z), MatMul(H, x_t))
    /\ err_hist[Len(err_hist)] = ret[2]

\* a call with a non-symmetric H whose innovation differs from the one the
\* pre-update estimate would give
C5_Witness ==
  /\ tick.calls > 0
  /\ ~raised
  /\ H # Transpose(H)
  /\ x_t # tick.x_pre
  /\ NewAxis(ret[2]) # MatSub(NewAxis(tick.z), MatMul(H, tick.x_pre))
  /\ err_hist[Len(err_hist)] = ret[2]

\* C6: in every learning evaluation the delayed entries are the ones recorded
\* exactly tau / dt calls before the most recent ones.
C6_LookbackIsTauOverDt ==
  \A ev \in LearnEvals : RatOf(ev.i_t - ev.i_tau) = RDiv(tau, dt)

\* C7: in every drift evaluation K = P * transpose(H) * inverse(R).
C7_GainUsesTranspose ==
  \A ev \in Evals : ~ev.raised => ev.K = MatMul(MatMul(ev.P, Transpose(H)), Inv(R))

\* C10: a completed call advances the clock by exactly dt; the learning rule is
\* evaluated exactly at the evaluation times t > tau; after a call with a learning
\* evaluation every evaluation of every later call is a learning one.
C10_PhaseByElapsedTime ==
  [][ (tick'.calls = tick.calls + 1 /\ ~raised') =>
        /\ r_t' = RAdd(r_t, dt)
        /\ \A i \in 1..Len(tick'.evals) :
             tick'.evals[i].learning <=> ~RLe(tick'.evals[i].tt, tau)
        /\ (\E i \in 1..Len(tick.evals) : tick.evals[i].learning)
              => \A i \in 1..Len(tick'.evals) : tick'.evals[i].learning ]_lkf_vars

\* a learning call that follows a learning call
C10_Witness ==
  /\ tick.calls >= 3
  /\ ~raised
  /\ r_t = RAdd(tick.t_pre, dt)
  /\ \A ev \in Evals : ev.learning
  /\ \E ev \in Evals : RLt(tau, tick.t_pre) /\ ev.tt = tick.t_pre

\* C11: the two histories have the same length, and in every evaluation of the
\* learning branch 1 <= tau_n <= len(err_hist): the indices -1 and -tau_n both
\* address existing entries (the call does not raise) and -tau_n is not -0, the
\* oldest entry.
C11_LookbackIndexInRange ==
  /\ Len(err_hist) = Len(P_hist)
  /\ \A ev \in Evals : ev.learning =>
       /\ 1 <= ev.tau_n
       /\ ev.tau_n <= ev.n
       /\ ~ev.raised
       /\ ev.i_t = PyNegIndex(ev.n, 1) /\ ev.i_t >= 1
       /\ ev.i_tau = ev.n - ev.tau_n + 1

\* C8: packing x, P, eta into the flat vector of length n (1 + 2n) (row-major,
\* column 0 = x, columns 1..n = P, columns n+1..2n = eta) and unpacking with
\* load_vars gives back x, P, eta; the drift unpacks its state and packs its
\* derivative in that layout.
C8_PackUnpackRoundTrip ==
  LET w == 1 + 2 * NDim
  IN  /\ pk_pc \in {"packed", "unpacked", "drift"} =>
           /\ Len(pk_flat) = NDim * w
           /\ \A i \in 1..NDim :
                /\ pk_flat[(i - 1) * w + 1] = pk_in[1][i][1]
                /\ \A j \in 1..NDim :
                     /\ pk_flat[(i - 1) * w + 1 + j] = pk_in[2][i][j]
                     /\ pk_flat[(i - 1) * w + 1 + NDim + j] = pk_in[3][i][j]
      /\ pk_pc \in {"unpacked", "drift"} => pk_out = pk_in
      /\ pk_pc = "drift" =>
           /\ ~pk_drv.raised
           /\ pk_drv.ev.P = pk_in[2] /\ pk_drv.ev.eta = pk_in[3]
           /\ load_vars(pk_drv.d_state) = <<pk_drv.ev.d_x, pk_drv.ev.d_P, pk_drv.ev.d_eta>>

\* x, P and eta pairwise different in content, unpacked and run through the drift
C8_Witness ==
  /\ pk_pc = "drift"
  /\ pk_in[2] # pk_in[3]
  /\ pk_in[2] # Transpose(pk_in[2])
  /\ pk_out = pk_in
  /\ pk_drv.ev.d_P # Zeros(NDim, NDim)

\* C9: obs.preimage(obs(X)) equals X restricted to its first columns, for every
\* polynomial, delay or composed observable and every snapshot of at least
\* obs.m columns.
C9_PreimageRecoversStates ==
  ob_pc = "pre" =>
    /\ ob_Z # <<>>
    /\ Rows(ob_Z) = ob_obs.d
    /\ Cols(ob_Z) <= Cols(ob_X)
    /\ ob_Z = ColSlice(ob_X, 1, Cols(ob_Z))

\* a polynomial followed by a delay that shortens the snapshot
C9_Witness ==
  /\ ob_pc = "pre"
  /\ ob_obs.kind = "composed"
  /\ Len(ob_obs.seq) = 2
  /\ ob_obs.seq[1].kind = "poly" /\ ob_obs.seq[1].k > ob_obs.seq[1].d
  /\ ob_obs.seq[2].kind = "delay" /\ ob_obs.seq[2].tau > 0
  /\ Cols(ob_Z) < Cols(ob_X)
  /\ ob_Z = ColSlice(ob_X, 1, Cols(ob_Z))

====
